---- MODULE Spec2Model ----
(***************************************************************************)
(* Model of the strictly typed event emitter of src/src/EventEmitter.ts:   *)
(* the handlers object (event key -> array of listener records), the       *)
(* registration operations on/once, the removal operation off, the         *)
(* dispatch loop of emit with its try/catch around each listener, and the  *)
(* introspection operations listeners/events.                              *)
(*                                                                         *)
(* emit calls back into listener code, and listener code may call the      *)
(* emitter again, so emit is modelled as a stack of dispatch frames: one   *)
(* frame per active emit call, holding the loop index i of                 *)
(* EventEmitter.ts:195. All other operations run to completion in one      *)
(* step. Registry calls are made either by outside code (empty stack) or   *)
(* by the listener the innermost dispatch is currently executing.          *)
(***************************************************************************)
EXTENDS Integers, Sequences, FiniteSets, TLC

\* ------------------------------------------------------------------ bounds
\* Total number of listener records ever created (on/once calls).
MaxRecords == 2
\* Depth of nested emit calls (an emit made by a listener of an emit).
MaxDepth == 2
\* Registry calls the listeners make during one outermost emit call.
MaxListenerOps == 1
\* Callbacks outside code pushes onto an array returned by listeners().
MaxPushes == 1

\* ------------------------------------------------------- values and kinds
\* Event identifiers carry the JavaScript type of the value passed as
\* `event`: a string, a number or a symbol.
StrEvent(n) == [kind |-> "string", name |-> n]
NumEvent(n) == [kind |-> "number", name |-> n]
SymEvent(n) == [kind |-> "symbol", name |-> n]

\* `event` omitted (undefined) in off(event?, listener?).
NoEvent == [kind |-> "undefined", name |-> ""]

\* `listener` omitted (undefined) in off(event?, listener?).
NoListener == "undefined"

\* The event map of the tests: EVENT and OTHER_EVENT.
EventMap == {StrEvent("EVENT"), StrEvent("OTHER_EVENT")}

\* An event map whose keys are not strings: one numeric, one symbol.
KindsEventMap == {NumEvent("7"), SymEvent("s")}

EventIds == EventMap \cup KindsEventMap

\* Callback functions, compared by reference (the stubs of the tests).
Callbacks == {"listeners0", "listeners1"}

\* Payloads passed to emit.
Payloads == {"payload", "notCalledPayload"}

\* undefined, for the constructor's omitted maxListeners argument.
Omitted == 0

\* Default listener maximum of the constructor.
DefaultMaxListeners == 10

\* The client programs explored. Each fixes the event map MAP the emitter is
\* instantiated with, the constructor argument, and how many registry calls
\* its listeners make while they are being dispatched to (0: the listeners
\* are plain functions that return or throw, like the stubs of the tests),
\* and whether the log handler behind log.warn / log.error throws.
Clients ==
    {[map |-> EventMap, maxArg |-> 1, listenerCalls |-> 0, sinkFails |-> FALSE],
     [map |-> KindsEventMap, maxArg |-> Omitted, listenerCalls |-> 0, sinkFails |-> FALSE],
     [map |-> {StrEvent("EVENT")}, maxArg |-> Omitted, listenerCalls |-> MaxListenerOps,
      sinkFails |-> FALSE]}

\* The same programs run with a js-logger handler that throws on every
\* message it is given (Logger.setHandler is the application's choice).
SinkClients ==
    {[map |-> EventMap, maxArg |-> 1, listenerCalls |-> 0, sinkFails |-> TRUE],
     [map |-> {StrEvent("EVENT")}, maxArg |-> 1, listenerCalls |-> MaxListenerOps,
      sinkFails |-> TRUE]}

VARIABLES
    eventMap,      \* keyof MAP: the event identifiers of this emitter's type
    listenerCalls, \* registry calls the listeners make per outermost emit
    sinkFails,     \* log.warn and log.error throw instead of returning
    handlers,      \* this.handlers: the properties [key, list of records]
    maxListeners,  \* this.maxListeners
    stack,         \* active emit calls, innermost last
    nextRid,       \* identity of the next record object to be created
    last           \* the last call made by outside code, with its outcome

vars == <<eventMap, listenerCalls, sinkFails, handlers, maxListeners, stack, nextRid, last>>

\* -------------------------------------------------------- object property keys
\* this.handlers is a JavaScript object: an ordered map. It is modelled as
\* the sequence of its own properties [key, list] in creation order.

\* Property key an event identifier is converted to when it indexes
\* this.handlers: numbers become their decimal string, strings and symbols
\* are used as they are.
PropertyKey(event) ==
    IF event.kind = "number" THEN StrEvent(event.name) ELSE event

\* Names that are canonical array indices; Object.keys lists them first.
IntegerKeyNames == {"7"}

\* The own property keys of the object, in creation order.
OwnKeys(h) == [n \in 1..Len(h) |-> h[n].key]

\* Object.keys(this.handlers): the own enumerable string keys, integer-like
\* keys first, then the other strings in creation order; symbol keys are
\* not listed. Every element is a string.
ObjectKeys(h) ==
    SelectSeq(OwnKeys(h), LAMBDA k : k.kind = "string" /\ k.name \in IntegerKeyNames)
    \o SelectSeq(OwnKeys(h), LAMBDA k : k.kind = "string" /\ k.name \notin IntegerKeyNames)

\* this.handlers[event] == null
IsNull(h, event) == \A n \in 1..Len(h) : h[n].key # PropertyKey(event)

\* this.handlers[event], for a key that is present
Get(h, event) == h[CHOOSE n \in 1..Len(h) : h[n].key = PropertyKey(event)].list

\* this.handlers[event] = list
Put(h, event, list) ==
    IF IsNull(h, event)
    THEN Append(h, [key |-> PropertyKey(event), list |-> list])
    ELSE [n \in 1..Len(h) |->
            IF h[n].key = PropertyKey(event) THEN [h[n] EXCEPT !.list = list] ELSE h[n]]

\* delete this.handlers[event]
Delete(h, event) == SelectSeq(h, LAMBDA p : p.key # PropertyKey(event))

\* ------------------------------------------------------------ listener records
\* { listener, persistent }: a fresh object, identified by rid.
Record(listener, persistent, rid) ==
    [listener |-> listener, persistent |-> persistent, rid |-> rid]

\* Array.prototype.unshift / push
Unshift(list, rec) == <<rec>> \o list
Push(list, rec) == Append(list, rec)

\* Array.prototype.findIndex with (handler) => handler.listener === listener;
\* 1-based, 0 when there is no match (JavaScript: -1).
RECURSIVE FindIndexFrom(_, _, _)
FindIndexFrom(list, listener, i) ==
    IF i > Len(list) THEN 0
    ELSE IF list[i].listener = listener THEN i
    ELSE FindIndexFrom(list, listener, i + 1)

FindIndex(list, listener) == FindIndexFrom(list, listener, 1)

\* Array.prototype.splice(index, 1)
Splice(list, index) ==
    SubSeq(list, 1, index - 1) \o SubSeq(list, index + 1, Len(list))

\* Array.prototype.filter((handler) => handler.persistent)
FilterPersistent(list) == SelectSeq(list, LAMBDA r : r.persistent)

\* ------------------------------------------------------------------ bookkeeping
\* The record kept of a call made by outside code: the call, the handlers
\* object it found (pre), what it returned or that it threw, whether on()
\* warned, and for emit the listener invocations it made and the registry
\* calls its listeners made while it was active (ops). For listeners():
\* the array it returned (out), whether that array is the one this.handlers
\* holds (alias), and what the caller has pushed onto it since (pushed).
NoCall ==
    [op |-> "none", event |-> NoEvent, listener |-> NoListener, prepend |-> FALSE,
     args |-> "", pre |-> <<>>, ret |-> "none", threw |-> FALSE, warned |-> FALSE,
     calls |-> <<>>, inner |-> FALSE, ops |-> {}, out |-> <<>>, alias |-> FALSE,
     pushed |-> <<>>]

Depth == Len(stack)
Top == stack[Len(stack)]

\* Who may call the emitter now: outside code when no dispatch is active,
\* otherwise the listener that the innermost dispatch is executing.
CanCall ==
    \/ stack = <<>>
    \/ /\ stack # <<>>
       /\ Top.running
       /\ stack[1].nops < listenerCalls

\* The stack after a registry call made by the running listener: the call is
\* counted, and every active dispatch has seen a listener use the registry.
Called(st) ==
    [d \in 1..Len(st) |->
        [st[d] EXCEPT !.inner = TRUE,
                      !.nops = IF d = 1 THEN @ + 1 ELSE @]]

\* A registry call as a listener makes it.
Op(op, event, listener, prepend) ==
    [op |-> op, event |-> event, listener |-> listener, prepend |-> prepend]

\* The stack after the registry call o made by the running listener: the
\* outermost dispatch also keeps which calls its listeners made.
CalledOp(st, o) ==
    [d \in 1..Len(st) |->
        [Called(st)[d] EXCEPT !.ops = IF d = 1 THEN @ \cup {o} ELSE @]]

\* The record of the last outside call after a call that ran to completion.
Completed(call) == IF stack = <<>> THEN call ELSE last

\* ------------------------------------------------------------------------ Init
\* new EventEmitter<MAP>(maxListeners)
InitWith(client) ==
    /\ eventMap = client.map
    /\ listenerCalls = client.listenerCalls
    /\ sinkFails = client.sinkFails
    /\ handlers = <<>>
    /\ maxListeners = IF client.maxArg = Omitted THEN DefaultMaxListeners
                                                 ELSE client.maxArg
    /\ stack = <<>>
    /\ nextRid = 1
    /\ last = NoCall

Init == \E client \in Clients : InitWith(client)

\* The emitter of a program whose log handler throws.
InitSink == \E client \in SinkClients : InitWith(client)

\* -------------------------------------------------------------------- on / once
\* Variant of on() that first makes the records already holding the
\* listener persistent.
OnHandlersMarksExisting(h, event, listener, prepend, rid) ==
    LET list == IF IsNull(h, event) THEN <<>> ELSE Get(h, event)
        marked == [n \in 1..Len(list) |->
                      IF list[n].listener = listener
                      THEN [list[n] EXCEPT !.persistent = TRUE]
                      ELSE list[n]]
    IN  Put(h, event,
            IF prepend THEN Unshift(marked, Record(listener, TRUE, rid))
                       ELSE Push(marked, Record(listener, TRUE, rid)))

\* Variant of on() that enforces the maximum: at the maximum nothing is added.
OnHandlersHardLimit(h, event, listener, prepend, rid) ==
    LET list == IF IsNull(h, event) THEN <<>> ELSE Get(h, event)
    IN  IF Len(list) >= maxListeners
        THEN h
        ELSE Put(h, event,
                 IF prepend THEN Unshift(list, Record(listener, TRUE, rid))
                            ELSE Push(list, Record(listener, TRUE, rid)))

\* The handlers object after on(event, listener, prepend).
OnHandlers(h, event, listener, prepend, rid) ==
    LET list == IF IsNull(h, event) THEN <<>> ELSE Get(h, event)
    IN  Put(h, event,
            IF prepend THEN Unshift(list, Record(listener, TRUE, rid))
                       ELSE Push(list, Record(listener, TRUE, rid)))

\* Variant of the test made after the insertion.
OnWarnsAfterInsertion(h, event, max) ==
    LET list == IF IsNull(h, event) THEN <<>> ELSE Get(h, event)
    IN  Len(list) + 1 >= max

\* log.warn is called by on(): the length test precedes the insertion.
OnWarns(h, event, max) ==
    LET list == IF IsNull(h, event) THEN <<>> ELSE Get(h, event)
    IN  Len(list) >= max

\* log.warn is called by once(): once() has no length test and no log call.
OnceWarns(h, event, max) == FALSE

\* Variant of once() that ignores prepend.
OnceHandlersAlwaysPush(h, event, listener, prepend, rid) ==
    LET list == IF IsNull(h, event) THEN <<>> ELSE Get(h, event)
    IN  Put(h, event, Push(list, Record(listener, FALSE, rid)))

\* The handlers object after once(event, listener, prepend).
OnceHandlers(h, event, listener, prepend, rid) ==
    LET list == IF IsNull(h, event) THEN <<>> ELSE Get(h, event)
    IN  Put(h, event,
            IF prepend THEN Unshift(list, Record(listener, FALSE, rid))
                       ELSE Push(list, Record(listener, FALSE, rid)))

\* The handlers object when log.warn throws out of on(): the null test of
\* lines 70-72 has run, the insertion has not.
OnHandlersWarnThrew(h, event) ==
    IF IsNull(h, event) THEN Put(h, event, <<>>) ELSE h

\* on(event, listener, prepend). The call to log.warn is outside any try
\* block: when it throws, the exception leaves on() before the insertion.
On(event, listener, prepend) ==
    /\ CanCall
    /\ nextRid <= MaxRecords
    /\ IF OnWarns(handlers, event, maxListeners) /\ sinkFails
       THEN /\ handlers' = OnHandlersWarnThrew(handlers, event)
            /\ nextRid' = nextRid
            /\ last' = Completed([NoCall EXCEPT
                            !.op = "on", !.event = event, !.listener = listener,
                            !.prepend = prepend, !.pre = handlers, !.ret = "none",
                            !.threw = TRUE, !.warned = TRUE])
       ELSE /\ handlers' = OnHandlers(handlers, event, listener, prepend, nextRid)
            /\ nextRid' = nextRid + 1
            /\ last' = Completed([NoCall EXCEPT
                            !.op = "on", !.event = event, !.listener = listener,
                            !.prepend = prepend, !.pre = handlers, !.ret = "this",
                            !.warned = OnWarns(handlers, event, maxListeners)])
    /\ stack' = CalledOp(stack, Op("on", event, listener, prepend))
    /\ UNCHANGED <<eventMap, listenerCalls, sinkFails, maxListeners>>

Once(event, listener, prepend) ==
    /\ CanCall
    /\ nextRid <= MaxRecords
    /\ handlers' = OnceHandlers(handlers, event, listener, prepend, nextRid)
    /\ nextRid' = nextRid + 1
    /\ stack' = CalledOp(stack, Op("once", event, listener, prepend))
    /\ last' = Completed([NoCall EXCEPT
                    !.op = "once", !.event = event, !.listener = listener,
                    !.prepend = prepend, !.pre = handlers, !.ret = "this",
                    !.warned = OnceWarns(handlers, event, maxListeners)])
    /\ UNCHANGED <<eventMap, listenerCalls, sinkFails, maxListeners>>

\* ------------------------------------------------------------------------- off
\* const events = this.events().filter(...)
OffEvents(h, event) ==
    SelectSeq(ObjectKeys(h), LAMBDA item : event = NoEvent \/ item = event)

\* Variant of the loop without the test index >= 0: splice(-1, 1) removes
\* the last record of an event that has no match.
RECURSIVE OffLoopNoIndexTest(_, _, _, _)
OffLoopNoIndexTest(h, events, i, listener) ==
    IF i > Len(events) THEN h
    ELSE IF listener = NoListener \/ Len(Get(h, events[i])) = 0
         THEN OffLoopNoIndexTest(Delete(h, events[i]), events, i + 1, listener)
    ELSE LET index == FindIndex(Get(h, events[i]), listener)
             at == IF index >= 1 THEN index ELSE Len(Get(h, events[i]))
             spliced == Splice(Get(h, events[i]), at)
         IN  IF Len(spliced) = 0
             THEN Delete(h, events[i])
             ELSE Put(h, events[i], spliced)

\* The for loop of off() from position i on; yields the handlers object it
\* leaves.
RECURSIVE OffLoop(_, _, _, _)
OffLoop(h, events, i, listener) ==
    IF i > Len(events) THEN h
    ELSE IF listener = NoListener \/ Len(Get(h, events[i])) = 0
         THEN OffLoop(Delete(h, events[i]), events, i + 1, listener)
    ELSE LET index == FindIndex(Get(h, events[i]), listener)
             spliced == Splice(Get(h, events[i]), index)
         IN  IF index >= 1
             THEN IF Len(spliced) = 0
                  THEN Delete(h, events[i])
                  ELSE Put(h, events[i], spliced)
             ELSE OffLoop(h, events, i + 1, listener)

\* The handlers object after off(event, listener).
OffHandlers(h, event, listener) ==
    OffLoop(h, OffEvents(h, event), 1, listener)

Off(event, listener) ==
    /\ CanCall
    /\ handlers' = OffHandlers(handlers, event, listener)
    /\ stack' = CalledOp(stack, Op("off", event, listener, FALSE))
    /\ last' = Completed([NoCall EXCEPT
                    !.op = "off", !.event = event, !.listener = listener,
                    !.pre = handlers, !.ret = "this"])
    /\ UNCHANGED <<eventMap, listenerCalls, sinkFails, maxListeners, nextRid>>

\* ------------------------------------------------------------------------ emit
\* Variant of the guard without the null test.
EmitNoListenersLengthOnly(h, event) ==
    IF IsNull(h, event) THEN FALSE ELSE Len(Get(h, event)) = 0

\* The guard of emit(): the event has no listeners.
EmitNoListeners(h, event) ==
    IF IsNull(h, event) THEN TRUE ELSE Len(Get(h, event)) = 0

\* One active emit call: the loop index i, whether the listener at i is
\* executing, and the handlers object the call found (h0). The outermost
\* call also holds the log of the listener invocations made while it is
\* active, by itself and by nested emit calls (calls), and the count of
\* registry calls made by listeners (nops); at is the position in that log
\* of the invocation the frame is executing; inner tells that a listener
\* has called the registry while this call was active, and ops, in the
\* outermost call, which registry calls the listeners made.
Frame(event, args, h) ==
    [event |-> event, args |-> args, i |-> 0, running |-> FALSE, nops |-> 0,
     calls |-> <<>>, at |-> 0, inner |-> FALSE, ops |-> {}, h0 |-> h]

\* emit(event, ...args) on an event without listeners returns false.
EmitFalse(event, args) ==
    /\ CanCall
    /\ EmitNoListeners(handlers, event)
    /\ stack' = CalledOp(stack, Op("emit", event, NoListener, FALSE))
    /\ last' = Completed([NoCall EXCEPT
                    !.op = "emit", !.event = event, !.args = args,
                    !.pre = handlers, !.ret = "false"])
    /\ UNCHANGED <<eventMap, listenerCalls, sinkFails, handlers, maxListeners, nextRid>>

\* emit(event, ...args) on an event with listeners enters the dispatch loop.
EmitBegin(event, args) ==
    /\ CanCall
    /\ Depth < MaxDepth
    /\ ~EmitNoListeners(handlers, event)
    /\ stack' = Append(CalledOp(stack, Op("emit", event, NoListener, FALSE)),
                       Frame(event, args, handlers))
    /\ last' = Completed([NoCall EXCEPT
                    !.op = "emit", !.event = event, !.args = args,
                    !.pre = handlers, !.ret = "pending"])
    /\ UNCHANGED <<eventMap, listenerCalls, sinkFails, handlers, maxListeners, nextRid>>

\* The invocation this.handlers[event][i].listener(...args), as logged:
\* the record, the arguments, the nesting depth of the emit call that makes
\* it, and, for an invocation made by the outermost call, whether it threw.
Invocation(h, event, i, args, depth) ==
    LET rec == Get(h, event)[i + 1]
    IN  [rid |-> rec.rid, listener |-> rec.listener,
         persistent |-> rec.persistent, args |-> args, depth |-> depth,
         threw |-> FALSE]

\* Loop test passed: this.handlers[event][i].listener(...args) is called.
EmitInvoke ==
    /\ stack # <<>>
    /\ ~Top.running
    /\ ~IsNull(handlers, Top.event)
    /\ Top.i < Len(Get(handlers, Top.event))
    /\ LET call == Invocation(handlers, Top.event, Top.i, Top.args, Depth)
           log == Append(stack[1].calls, call)
       IN  stack' = [d \in 1..Len(stack) |->
                        [stack[d] EXCEPT
                            !.calls = IF d = 1 THEN log ELSE @,
                            !.running = IF d = Len(stack) THEN TRUE ELSE @,
                            !.at = IF d = Len(stack) THEN Len(log) ELSE @]]
    /\ UNCHANGED <<eventMap, listenerCalls, sinkFails, handlers, maxListeners, nextRid, last>>

\* The listener returns: i++.
ListenerReturn ==
    /\ stack # <<>>
    /\ Top.running
    /\ stack' = [stack EXCEPT ![Len(stack)] =
                    [@ EXCEPT !.running = FALSE, !.i = @ + 1]]
    /\ UNCHANGED <<eventMap, listenerCalls, sinkFails, handlers, maxListeners, nextRid, last>>

\* Variant without the try/catch: the listener's exception leaves emit.
ListenerThrowUncaught ==
    /\ stack # <<>>
    /\ Top.running
    /\ stack' = [d \in 1..(Len(stack) - 1) |->
                    [stack[d] EXCEPT
                        !.calls = IF d = 1 /\ Depth = 1 THEN [@ EXCEPT ![Top.at].threw = TRUE]
                                           ELSE @]]
    /\ last' = IF Depth = 1
               THEN [last EXCEPT !.ret = "none", !.threw = TRUE,
                                 !.calls = [Top.calls EXCEPT ![Top.at].threw = TRUE],
                                 !.inner = Top.inner, !.ops = Top.ops]
               ELSE last
    /\ UNCHANGED <<eventMap, listenerCalls, sinkFails, handlers, maxListeners, nextRid>>

\* Variant with the try/catch around the loop and the cleanup: a listener's
\* exception ends the dispatch, is reported, and emit returns true.
ListenerThrowEndsDispatch ==
    /\ stack # <<>>
    /\ Top.running
    /\ stack' = [d \in 1..(Len(stack) - 1) |->
                    [stack[d] EXCEPT
                        !.calls = IF d = 1 /\ Depth = 1 THEN [@ EXCEPT ![Top.at].threw = TRUE]
                                           ELSE @]]
    /\ last' = IF Depth = 1
               THEN [last EXCEPT !.ret = "true",
                                 !.calls = [Top.calls EXCEPT ![Top.at].threw = TRUE],
                                 !.inner = Top.inner, !.ops = Top.ops]
               ELSE last
    /\ UNCHANGED <<eventMap, listenerCalls, sinkFails, handlers, maxListeners, nextRid>>

\* The listener throws: the catch block reports the error with log.error,
\* then i++. log.error is called inside the catch block, outside any try
\* block: when it throws, the exception leaves emit() (into the listener
\* that called it, for a nested emit), without the cleanup.
ListenerThrow ==
    /\ stack # <<>>
    /\ Top.running
    /\ IF sinkFails
       THEN /\ stack' = [d \in 1..(Len(stack) - 1) |->
                            [stack[d] EXCEPT
                                !.calls = IF d = 1 /\ Depth = 1
                                          THEN [@ EXCEPT ![Top.at].threw = TRUE]
                                          ELSE @]]
            /\ last' = IF Depth = 1
                       THEN [last EXCEPT
                                !.ret = "none", !.threw = TRUE,
                                !.calls = [Top.calls EXCEPT ![Top.at].threw = TRUE],
                                !.inner = Top.inner, !.ops = Top.ops]
                       ELSE last
       ELSE /\ stack' = [d \in 1..Len(stack) |->
                            [stack[d] EXCEPT
                                !.calls = IF d = 1 /\ Depth = 1
                                          THEN [@ EXCEPT ![Top.at].threw = TRUE]
                                          ELSE @,
                                !.running = IF d = Len(stack) THEN FALSE ELSE @,
                                !.i = IF d = Len(stack) THEN @ + 1 ELSE @]]
            /\ last' = last
    /\ UNCHANGED <<eventMap, listenerCalls, sinkFails, handlers, maxListeners, nextRid>>

\* Variant of the cleanup that filters the list of every event.
EmitCleanupEveryEvent(h, event) ==
    SelectSeq([n \in 1..Len(h) |-> [h[n] EXCEPT !.list = FilterPersistent(@)]],
              LAMBDA p : Len(p.list) > 0)

\* Variant of the cleanup without the delete of an emptied key.
EmitCleanupKeepsKey(h, event) ==
    Put(h, event, FilterPersistent(Get(h, event)))

\* The handlers object after the cleanup that follows the loop.
EmitCleanup(h, event) ==
    LET kept == FilterPersistent(Get(h, event))
    IN  IF Len(kept) = 0 THEN Delete(h, event) ELSE Put(h, event, kept)

\* Loop test failed: one-time records are filtered out, emit returns true.
EmitFinish ==
    /\ stack # <<>>
    /\ ~Top.running
    /\ ~IsNull(handlers, Top.event)
    /\ Top.i >= Len(Get(handlers, Top.event))
    /\ handlers' = EmitCleanup(handlers, Top.event)
    /\ stack' = SubSeq(stack, 1, Len(stack) - 1)
    /\ last' = IF Depth = 1
               THEN [last EXCEPT !.ret = "true", !.calls = Top.calls,
                                 !.inner = Top.inner, !.ops = Top.ops]
               ELSE last
    /\ UNCHANGED <<eventMap, listenerCalls, sinkFails, maxListeners, nextRid>>

\* Loop test on a deleted key: this.handlers[event] is undefined, reading
\* its length throws a TypeError out of emit.
EmitTypeError ==
    /\ stack # <<>>
    /\ ~Top.running
    /\ IsNull(handlers, Top.event)
    /\ stack' = SubSeq(stack, 1, Len(stack) - 1)
    /\ last' = IF Depth = 1
               THEN [last EXCEPT !.ret = "none", !.threw = TRUE,
                                 !.calls = Top.calls, !.inner = Top.inner,
                                 !.ops = Top.ops]
               ELSE last
    /\ UNCHANGED <<eventMap, listenerCalls, sinkFails, handlers, maxListeners, nextRid>>

\* --------------------------------------------------------------- introspection
\* listeners(event)
Listeners(h, event) ==
    LET list == IF IsNull(h, event) THEN <<>> ELSE Get(h, event)
    IN  [n \in 1..Len(list) |-> list[n].listener]

\* Variant of listeners() that hands out the array this.handlers holds.
ListenersReturnInternal(h, event) ==
    [out |-> Listeners(h, event), alias |-> ~IsNull(h, event)]

\* The array listeners(event) returns: the spread and the map each build a
\* new array, so the result is no array that this.handlers holds.
ListenersReturn(h, event) ==
    [out |-> Listeners(h, event), alias |-> FALSE]

\* Outside code calls listeners(event).
ListenersCall(event) ==
    /\ stack = <<>>
    /\ last' = [NoCall EXCEPT
                    !.op = "listeners", !.event = event, !.pre = handlers,
                    !.ret = "array",
                    !.out = ListenersReturn(handlers, event).out,
                    !.alias = ListenersReturn(handlers, event).alias]
    /\ UNCHANGED <<eventMap, listenerCalls, sinkFails, handlers, maxListeners, stack, nextRid>>

\* Outside code pushes a callback onto the array listeners() returned; the
\* push reaches this.handlers only if the array is one it holds.
ReturnedPush(listener) ==
    /\ stack = <<>>
    /\ last.op = "listeners"
    /\ Len(last.pushed) < MaxPushes
    /\ last' = [last EXCEPT !.pushed = Append(@, listener)]
    /\ handlers' = IF last.alias
                   THEN Put(handlers, last.event,
                            Push(Get(handlers, last.event), Record(listener, TRUE, 0)))
                   ELSE handlers
    /\ UNCHANGED <<eventMap, listenerCalls, sinkFails, maxListeners, stack, nextRid>>

\* events()
Events(h) == ObjectKeys(h)

\* ------------------------------------------------------------------------ Next
Next ==
    \/ \E e \in eventMap, l \in Callbacks, p \in BOOLEAN : On(e, l, p)
    \/ \E e \in eventMap, l \in Callbacks, p \in BOOLEAN : Once(e, l, p)
    \/ \E e \in eventMap \cup {NoEvent}, l \in Callbacks \cup {NoListener} : Off(e, l)
    \/ \E e \in eventMap, a \in Payloads : EmitFalse(e, a)
    \/ \E e \in eventMap, a \in Payloads : EmitBegin(e, a)
    \/ EmitInvoke
    \/ ListenerReturn
    \/ ListenerThrow
    \/ EmitFinish
    \/ EmitTypeError
    \/ \E e \in eventMap : ListenersCall(e)
    \/ \E l \in Callbacks : ReturnedPush(l)

Spec == Init /\ [][Next]_vars

\* The same operations on the emitter of a program whose log handler throws.
SpecSink == InitSink /\ [][Next]_vars

\* ------------------------------------------------------------------ properties
TypeOK ==
    /\ \A n \in 1..Len(handlers) : handlers[n].key \in {PropertyKey(e) : e \in EventIds}
    /\ nextRid \in 1..(MaxRecords + 1)
    /\ Len(stack) <= MaxDepth

\* The records registered for an event, the empty sequence when there are none.
Registered(h, event) == IF IsNull(h, event) THEN <<>> ELSE Get(h, event)

Rids(list) == {list[n].rid : n \in 1..Len(list)}

\* A sequence without its k-th element.
WithoutAt(list, k) ==
    [n \in 1..(Len(list) - 1) |-> IF n < k THEN list[n] ELSE list[n + 1]]

\* Positions of the records of a list whose callback is cb.
Matches(list, cb) == {n \in 1..Len(list) : list[n].listener = cb}

\* The records the last outside call found registered for its event.
Before == Registered(last.pre, last.event)

\* The last outside call was an emit and it has returned or thrown.
EmitEnded == last.op = "emit" /\ last.ret # "pending"

\* Another event than the one of the last outside call.
OtherEvent(e) == PropertyKey(e) # PropertyKey(last.event)

\* C1: when the listeners only return or throw (none of them calls the
\* registry), an emit on an event with N >= 1 registered records invokes
\* exactly these N records, each once, in list order, each with the emit's
\* arguments, whichever of them throw.
C1_EmitInvokesAllInOrder ==
    (EmitEnded /\ ~last.inner /\ Len(Before) >= 1) =>
        /\ Len(last.calls) = Len(Before)
        /\ \A n \in 1..Len(Before) :
              /\ n <= Len(last.calls)
              /\ last.calls[n].rid = Before[n].rid
              /\ last.calls[n].listener = Before[n].listener
              /\ last.calls[n].args = last.args

\* An emit over two records whose first listener threw and whose second
\* listener was still invoked.
C1_Witness ==
    /\ EmitEnded /\ ~last.inner
    /\ Len(Before) = 2 /\ Len(last.calls) = 2
    /\ last.calls[1].threw /\ ~last.calls[2].threw

\* C2: a registration by on or once puts its callback at the tail of
\* listeners(event), or at the head when prepend is true, and keeps the
\* callbacks registered before in their order; so a prepended callback
\* precedes all earlier ones and follows the ones prepended later.
C2_RegistrationOrder ==
    last.op \in {"on", "once"} =>
        Listeners(handlers, last.event) =
            IF last.prepend
            THEN <<last.listener>> \o Listeners(last.pre, last.event)
            ELSE Listeners(last.pre, last.event) \o <<last.listener>>

\* A one-time listener prepended to an event that already has a listener.
C2_Witness ==
    /\ last.op = "once" /\ last.prepend
    /\ Len(Before) = 1
    /\ Len(Listeners(handlers, last.event)) = 2

\* C3: every one-time record registered for the event when emit is called is
\* invoked by that emit with its arguments, is no longer registered when the
\* emit has ended (so no later emit invokes it), and if it was the only
\* record the event is no longer listed by events().
C3_OnceInvokedByFirstEmit ==
    EmitEnded =>
        \A n \in 1..Len(Before) :
            ~Before[n].persistent =>
                /\ \E c \in 1..Len(last.calls) :
                      /\ last.calls[c].rid = Before[n].rid
                      /\ last.calls[c].args = last.args
                /\ Before[n].rid \notin Rids(Registered(handlers, last.event))
                /\ Len(Before) = 1 =>
                      \A k \in 1..Len(Events(handlers)) :
                          Events(handlers)[k] # last.event

\* C4: off(event, cb) on an event that holds a record with callback cb
\* removes the earliest such record and nothing else of that event.
C4_OffRemovesEarliestMatch ==
    (/\ last.op = "off" /\ last.event # NoEvent /\ last.listener # NoListener
     /\ Matches(Before, last.listener) # {}) =>
        LET first == CHOOSE n \in Matches(Before, last.listener) :
                        \A m \in Matches(Before, last.listener) : n <= m
        IN  Registered(handlers, last.event) = WithoutAt(Before, first)

\* C5: after off() without arguments the registry is empty: events() is
\* empty, listeners(e) is empty for every event, and emit(e) finds no
\* listeners.
C5_OffAllEmptiesRegistry ==
    (last.op = "off" /\ last.event = NoEvent /\ last.listener = NoListener) =>
        /\ Events(handlers) = <<>>
        /\ \A e \in eventMap :
              /\ Listeners(handlers, e) = <<>>
              /\ EmitNoListeners(handlers, e)

\* C6: off(event) removes every record of the event and deletes its key;
\* off(event) and off(event, cb) leave the records of all other events as
\* they were.
C6_OffEventOnly ==
    (last.op = "off" /\ last.event # NoEvent) =>
        /\ last.listener = NoListener => IsNull(handlers, last.event)
        /\ \A e \in eventMap :
              OtherEvent(e) => Registered(handlers, e) = Registered(last.pre, e)

\* C7: off(event, cb) on an event without listeners, or without a record
\* whose callback is cb, returns normally and leaves the whole registry as
\* it was.
C7_OffNoMatchIsNoOp ==
    (/\ last.op = "off" /\ last.event # NoEvent /\ last.listener # NoListener
     /\ Matches(Before, last.listener) = {}) =>
        /\ handlers = last.pre
        /\ last.ret = "this"
        /\ ~last.threw

\* off(event, cb) on an event whose two records have another callback.
C7_Witness ==
    /\ last.op = "off" /\ last.event # NoEvent /\ last.listener # NoListener
    /\ Matches(Before, last.listener) = {}
    /\ Len(Before) = 2

\* C8: emit on an event without registered listeners returns false, invokes
\* nothing and leaves the registry as it was.
C8_EmitWithoutListeners ==
    (last.op = "emit" /\ Len(Before) = 0) =>
        /\ last.ret = "false"
        /\ ~last.threw
        /\ last.calls = <<>>
        /\ handlers = last.pre

\* emit on an event without listeners while another event has some.
C8_Witness ==
    /\ last.op = "emit" /\ Len(Before) = 0
    /\ last.ret = "false"
    /\ handlers # <<>>

\* C9: an emit on an event that had at least one listener when it was
\* called returns true and throws nothing to its caller.
C9_EmitReturnsTrue ==
    (EmitEnded /\ Len(Before) >= 1) => (last.ret = "true" /\ ~last.threw)

\* C10: when no listener calls the registry, emit(event) invokes only
\* records registered under that event and leaves the records of every
\* other event as they were.
C10_EmitOtherEventsUntouched ==
    (EmitEnded /\ ~last.inner) =>
        /\ \A c \in 1..Len(last.calls) : last.calls[c].rid \in Rids(Before)
        /\ \A e \in eventMap :
              OtherEvent(e) => Registered(handlers, e) = Registered(last.pre, e)

\* An emit that invoked a listener while another event holds a one-time
\* record, which is still registered afterwards.
C10_Witness ==
    /\ EmitEnded /\ ~last.inner /\ Len(last.calls) >= 1
    /\ \E e \in eventMap :
          /\ OtherEvent(e)
          /\ \E n \in 1..Len(Registered(handlers, e)) :
                ~Registered(handlers, e)[n].persistent

\* C11: listeners(event) returns a new array holding the callbacks of the
\* records registered for the event, in list order, empty when there are
\* none; pushing onto the returned array leaves the registry as it was
\* (so a later emit invokes what it would have invoked without the push).
C11_ListenersFreshCopy ==
    last.op = "listeners" =>
        /\ Len(last.out) = Len(Before)
        /\ \A n \in 1..Len(Before) :
              n <= Len(last.out) /\ last.out[n] = Before[n].listener
        /\ handlers = last.pre
        /\ Listeners(handlers, last.event) = last.out

\* listeners() on an event holding a persistent and a one-time record,
\* followed by a push onto the returned array.
C11_Witness ==
    /\ last.op = "listeners"
    /\ Len(Before) = 2
    /\ Before[1].persistent /\ ~Before[2].persistent
    /\ last.pushed # <<>>

\* C12: maxListeners is no hard limit: every on and once call returns
\* normally and leaves its event with one record more than before, the new
\* record holding the callback; and with maxListeners = 1 an emit on an
\* event with two registered records invokes both.
C12_MaxListenersAdvisory ==
    /\ last.op \in {"on", "once"} =>
          /\ last.ret = "this" /\ ~last.threw
          /\ Len(Registered(handlers, last.event)) = Len(Before) + 1
          /\ \E n \in 1..Len(Registered(handlers, last.event)) :
                /\ Registered(handlers, last.event)[n].rid \notin Rids(Before)
                /\ Registered(handlers, last.event)[n].listener = last.listener
                /\ Registered(handlers, last.event)[n].persistent = (last.op = "on")
    /\ (EmitEnded /\ ~last.inner /\ maxListeners = 1 /\ Len(Before) = 2) =>
          {last.calls[c].rid : c \in 1..Len(last.calls)} = Rids(Before)

\* With maxListeners = 1, an emit that found two records on its event and
\* invoked two listeners.
C12_Witness ==
    /\ EmitEnded /\ ~last.inner /\ maxListeners = 1
    /\ Len(Before) = 2 /\ Len(last.calls) = 2
    /\ Before[1].persistent /\ Before[2].persistent

\* No event key maps to an empty listener sequence.
NoEmptyList == \A n \in 1..Len(handlers) : Len(handlers[n].list) > 0

\* C13: whenever no call is active, no event key maps to an empty listener
\* sequence, and events() lists exactly the events that have at least one
\* registered listener (an event is taken as listed when its property key
\* is).
C13_EventsAreLiveEvents ==
    stack = <<>> =>
        /\ NoEmptyList
        /\ \A e \in eventMap :
              (Len(Registered(handlers, e)) > 0) <=>
                  (\E k \in 1..Len(Events(handlers)) :
                      Events(handlers)[k] = PropertyKey(e))

\* The positions in the log of the last emit at which the emit call itself
\* (not an emit nested in it) invoked the record rid.
OwnCallsOf(rid) ==
    {c \in 1..Len(last.calls) :
        last.calls[c].depth = 1 /\ last.calls[c].rid = rid}

\* C14: when the listeners of an emit(E) only register further listeners
\* for E at the tail (on or once, appended), the emit invokes none of the
\* records registered during the dispatch: every record it invokes was
\* registered for E when the dispatch began.
C14_AddedNotInvokedInSameEmit ==
    (/\ EmitEnded
     /\ \A o \in last.ops :
           o.op \in {"on", "once"} /\ o.event = last.event /\ ~o.prepend) =>
        \A c \in 1..Len(last.calls) :
            last.calls[c].depth = 1 => last.calls[c].rid \in Rids(Before)

\* C15: when the listeners of an emit(E) only remove listeners of E by
\* callback (off(E, cb)), every record registered for E when the dispatch
\* began is invoked exactly once by that emit.
C15_RemovalDoesNotChangeDispatch ==
    (/\ EmitEnded
     /\ last.ops # {}
     /\ \A o \in last.ops :
           o.op = "off" /\ o.event = last.event /\ o.listener # NoListener) =>
        \A n \in 1..Len(Before) : Cardinality(OwnCallsOf(Before[n].rid)) = 1

\* C16: when a listener of an emit(E) removes every listener of E (off(E),
\* off(), or off(E, cb) on an event with a single listener), the emit
\* returns true and throws nothing to its caller.
C16_EmitSurvivesRemovalOfAll ==
    (/\ EmitEnded
     /\ last.ops # {}
     /\ \A o \in last.ops :
           /\ o.op = "off"
           /\ o.event \in {last.event, NoEvent}
           /\ o.listener = NoListener \/ Len(Before) = 1) =>
        (last.ret = "true" /\ ~last.threw)

\* C17: a record registered with once is invoked at most once, also when
\* listeners of the dispatch that invokes it emit the same event again.
C17_OnceInvokedAtMostOnce ==
    (EmitEnded /\ \A o \in last.ops : o.op = "emit") =>
        \A c, d \in 1..Len(last.calls) :
            (/\ last.calls[c].rid = last.calls[d].rid
             /\ ~last.calls[c].persistent) => c = d

\* C18: a one-time record that an emit invoked and whose invocation threw
\* is not registered for the event when the emit has ended, whatever the
\* other listeners did.
C18_ThrowingOnceRemoved ==
    EmitEnded =>
        \A c \in 1..Len(last.calls) :
            (/\ last.calls[c].depth = 1
             /\ last.calls[c].threw
             /\ ~last.calls[c].persistent) =>
                last.calls[c].rid \notin Rids(Registered(handlers, last.event))

\* An emit whose one-time listener threw while a persistent listener of the
\* same event stays registered.
C18_Witness ==
    /\ EmitEnded /\ last.ret = "true"
    /\ Len(Registered(handlers, last.event)) = 1
    /\ \E c \in 1..Len(last.calls) :
          /\ last.calls[c].depth = 1
          /\ last.calls[c].threw
          /\ ~last.calls[c].persistent

\* C19: on(event, cb) warns exactly when the event's listener count after
\* the insertion reaches or exceeds maxListeners.
C19_OnWarnsAtMaximum ==
    last.op = "on" =>
        (last.warned <=> Len(Registered(handlers, last.event)) >= maxListeners)

\* C19, amended: on(event, cb) warns exactly when the event's listener
\* count after the insertion exceeds maxListeners, that is when the event
\* already held maxListeners or more records when on was called.
C19_OnWarnsAboveMaximum ==
    last.op = "on" =>
        /\ last.warned <=> Len(Registered(handlers, last.event)) > maxListeners
        /\ last.warned <=> Len(Before) >= maxListeners

\* With maxListeners = 1, the second registration on an event: the first
\* that warns.
C19_Witness ==
    /\ last.op = "on" /\ maxListeners = 1
    /\ Len(Before) = 1
    /\ last.warned

\* C20: once(event, cb) warns exactly when on(event, cb) would warn in
\* the same registry state.
C20_OnceWarnsAsOn ==
    last.op = "once" =>
        (last.warned <=> OnWarns(last.pre, last.event, maxListeners))

\* A list without its earliest record whose callback is cb; the list itself
\* when it holds no such record.
WithoutEarliest(list, cb) ==
    IF Matches(list, cb) = {}
    THEN list
    ELSE WithoutAt(list, CHOOSE n \in Matches(list, cb) :
                            \A m \in Matches(list, cb) : n <= m)

\* C21: off(undefined, cb) removes, from every event that holds a record
\* with callback cb, the earliest such record, and leaves the other events
\* as they were (stated for the events named by strings).
C21_OffCallbackEveryEvent ==
    (last.op = "off" /\ last.event = NoEvent /\ last.listener # NoListener) =>
        \A e \in eventMap :
            e.kind = "string" =>
                Registered(handlers, e) =
                    WithoutEarliest(Registered(last.pre, e), last.listener)

\* C22: when the only registry calls the listeners of an emit(E) made are
\* once(E, cb) registrations, a one-time record that was not registered when
\* the dispatch began is still registered for E when the emit has returned.
C22_CleanupSparesAddedOnce ==
    (/\ EmitEnded /\ last.ret = "true"
     /\ last.ops # {}
     /\ \A o \in last.ops : o.op = "once" /\ o.event = last.event) =>
        \E n \in 1..Len(Registered(handlers, last.event)) :
            /\ Registered(handlers, last.event)[n].rid \notin Rids(Before)
            /\ ~Registered(handlers, last.event)[n].persistent

\* C23: a log handler that throws does not reach the registry's callers: an
\* on call that warns still returns normally with its record registered,
\* and an emit whose listeners only return or throw still invokes every
\* registered record and returns true.
C23_SinkFailureContained ==
    /\ (last.op = "on" /\ last.warned) =>
          /\ last.ret = "this" /\ ~last.threw
          /\ Len(Registered(handlers, last.event)) = Len(Before) + 1
    /\ (EmitEnded /\ ~last.inner /\ Len(Before) >= 1) =>
          /\ last.ret = "true" /\ ~last.threw
          /\ Len(last.calls) = Len(Before)

\* The log and the listener-made registry calls of the outermost emit call,
\* while it is active and once it has ended.
CallsSoFar == IF stack # <<>> THEN stack[1].calls ELSE last.calls
OpsSoFar == IF stack # <<>> THEN stack[1].ops ELSE last.ops

\* C24: when the listeners of an emit(E) only register further listeners
\* for E, the emit call itself never makes more invocations than there were
\* records registered for E when the dispatch began.
C24_InvocationsBounded ==
    (/\ last.op = "emit"
     /\ \A o \in OpsSoFar : o.op \in {"on", "once"} /\ o.event = last.event) =>
        Cardinality({c \in 1..Len(CallsSoFar) : CallsSoFar[c].depth = 1})
            <= Len(Before)

\* Every record the handlers object holds, under any event.
AllRecords(h) ==
    UNION {{h[n].list[k] : k \in 1..Len(h[n].list)} : n \in 1..Len(h)}

\* C25: in every step, a record that exists before and after the step has
\* the same persistent flag, and a record the step creates is persistent
\* exactly when it was created by on (not persistent when created by once).
C25_PersistentFixed ==
    [][/\ \A r \in AllRecords(handlers), q \in AllRecords(handlers') :
             r.rid = q.rid => q.persistent = r.persistent
       /\ \A q \in AllRecords(handlers') :
             q.rid \notin {r.rid : r \in AllRecords(handlers)} =>
                 IF stack = <<>>
                 THEN last'.op = (IF q.persistent THEN "on" ELSE "once")
                 ELSE \E o \in stack'[1].ops :
                          o.op = (IF q.persistent THEN "on" ELSE "once")]_vars

\* An off(event, cb) call that removed one of two records and left a
\* one-time record, still one-time, on the event.
C25_Witness ==
    /\ last.op = "off" /\ last.listener # NoListener
    /\ Len(Before) = 2
    /\ Len(Registered(handlers, last.event)) = 1
    /\ ~Registered(handlers, last.event)[1].persistent
    /\ Registered(handlers, last.event)[1] \in {Before[1], Before[2]}

\* C26: for an event identifier of any kind (string, number, symbol): after
\* on(e, cb) the event is listed by events() (by its property key), and
\* after off(e) and after off() an emit(e) finds no listeners.
C26_EveryKindOfEvent ==
    /\ last.op = "on" =>
          \E k \in 1..Len(Events(handlers)) :
              Events(handlers)[k] = PropertyKey(last.event)
    /\ (last.op = "off" /\ last.listener = NoListener) =>
          \A e \in eventMap :
              (last.event = NoEvent \/ last.event = e) =>
                  EmitNoListeners(handlers, e)

\* The persistent records of a list, in their order.
RECURSIVE PersistentOnly(_)
PersistentOnly(list) ==
    IF list = <<>> THEN <<>>
    ELSE IF Head(list).persistent
         THEN <<Head(list)>> \o PersistentOnly(Tail(list))
         ELSE PersistentOnly(Tail(list))

\* C27: when no listener calls the registry, an emit on an event with
\* listeners leaves the event with exactly its persistent records, in their
\* previous order, and the event's key is absent exactly when no persistent
\* record remained.
C27_EmitDeletesOnlyOneShots ==
    (EmitEnded /\ ~last.inner /\ Len(Before) >= 1) =>
        /\ Registered(handlers, last.event) = PersistentOnly(Before)
        /\ Listeners(handlers, last.event) =
              [n \in 1..Len(PersistentOnly(Before)) |->
                  PersistentOnly(Before)[n].listener]
        /\ IsNull(handlers, last.event) <=> (PersistentOnly(Before) = <<>>)

\* An emit on an event holding two one-time records: both are deleted and
\* the key with them.
C27_Witness ==
    /\ EmitEnded /\ ~last.inner
    /\ Len(Before) = 2
    /\ ~Before[1].persistent /\ ~Before[2].persistent
    /\ IsNull(handlers, last.event)

\* C28: when the listeners of an emit(E) only register further listeners
\* for E (at the tail or, with prepend, at the head), the emit call itself
\* invokes no record more than once.
C28_NoRecordInvokedTwice ==
    (/\ EmitEnded
     /\ \A o \in last.ops : o.op \in {"on", "once"} /\ o.event = last.event) =>
        \A c, d \in 1..Len(last.calls) :
            (/\ last.calls[c].depth = 1 /\ last.calls[d].depth = 1
             /\ last.calls[c].rid = last.calls[d].rid) => c = d

\* C29: when the listeners of a dispatch make no off call (they only
\* register listeners), a one-time record that the end of an emit call
\* takes out of the registry has been invoked during the dispatch.
C29_OnceNotLostSilently ==
    [][(/\ Len(stack') < Len(stack)
        /\ \A o \in stack[1].ops : o.op \in {"on", "once"}) =>
          \A r \in AllRecords(handlers) :
              (~r.persistent /\ r.rid \notin {q.rid : q \in AllRecords(handlers')}) =>
                  \E c \in 1..Len(stack[1].calls) : stack[1].calls[c].rid = r.rid]_vars
====
